---- MODULE Spec2Model ----
(***************************************************************************)
(* The reconciliation job of server/src/bin/sync-qdrant.rs: for every      *)
(* collection of the vector store, scroll its point ids page by page, ask  *)
(* the relational store which of them have a row, and delete the others    *)
(* from the vector store.                                                  *)
(*                                                                         *)
(* One action per await point of main (lines 34, 42-47, 49-51, 65); the    *)
(* synchronous code between two awaits belongs to the action of the await  *)
(* that precedes it.  The four collaborators live in operators/ and are    *)
(* modelled from their contracts.                                          *)
(***************************************************************************)
EXTENDS Integers, Sequences, FiniteSets, TLC

(* ---- bounds of the model ---------------------------------------------- *)
MaxPoint == 2
NumCollections == 2
\* the page size the Driver asks for; the code asks for 1000 (line 45), the
\* model for a size that lets a collection span several pages
PageSize == 2
\* writes by other parties (the independent write paths) during the whole behaviour
MaxWrites == 1
\* invocations of the job
MaxRuns == 2

PointIds == 0..MaxPoint
CollectionNames == 1..NumCollections

\* uuid::Uuid::nil(): the least identifier
NilUuid == 0
\* Option::None of a cursor
None == -1
\* no collection bound yet (before the for loop binds `collection`)
NoCollection == 0

\* a run makes one enumeration and, per collection, at most three calls per
\* page; a page that is not the only one of its collection holds a point
MaxLog == 1 + 3 * NumCollections * (MaxPoint + 2)

VARIABLES
    hosted,                       \* collections the vector store hosts
    qdrant,                       \* collection -> point ids it holds
    pg,                           \* point ids that have a row in the relational store
    pc,                           \* the await main is at, or "done" (Ok(())) / "failed" (Err)
    collections,                  \* what the for loop has still to visit
    collection,                   \* the loop variable of line 36
    offset,                       \* line 39
    qdrant_point_ids,             \* line 42
    new_offset,                   \* line 42
    pg_point_ids,                 \* line 49
    qdrant_point_ids_not_in_pg,   \* line 53
    calls,                        \* history: the collaborator calls of this run, in order
    enumerated,                   \* history: what get_qdrant_collections returned in this run
    doneCols,                     \* history: collections whose while loop has ended in this run
    run,                          \* history: number of the current invocation
    prevOk,                       \* history: the previous invocation returned Ok(())
    aborted,                      \* history: some earlier invocation returned Err
    writes,                       \* history: writes by other parties so far
    q0, pg0,                      \* history: the stores at the start of the behaviour
    qRunStart                     \* history: the vector store at the start of this run

stores == <<hosted, qdrant, pg>>
locals == <<collections, collection, offset, qdrant_point_ids, new_offset,
            pg_point_ids, qdrant_point_ids_not_in_pg>>
history == <<enumerated, doneCols, run, prevOk, aborted, q0, pg0, qRunStart>>
vars == <<hosted, qdrant, pg, pc, collections, collection, offset,
          qdrant_point_ids, new_offset, pg_point_ids, qdrant_point_ids_not_in_pg,
          calls, enumerated, doneCols, run, prevOk, aborted, writes, q0, pg0,
          qRunStart>>

(* ---- sequences --------------------------------------------------------- *)
Range(s) == {s[i] : i \in DOMAIN s}

RECURSIVE SortedSeq(_)
SortedSeq(S) ==
    IF S = {} THEN <<>>
    ELSE LET m == CHOOSE x \in S : \A y \in S : x <= y
         IN  <<m>> \o SortedSeq(S \ {m})

Take(s, n) == SubSeq(s, 1, IF Len(s) < n THEN Len(s) ELSE n)

Perms(S) == {s \in [1..Cardinality(S) -> S] : \A i, j \in DOMAIN s : s[i] = s[j] => i = j}

(* ---- the collaborators (operators/qdrant_operator.rs, chunk_operator.rs) - *)
\* Scanner: the page of at most `limit` ids of the collection, in id order,
\* starting at the cursor (inclusive) ...
ScrollBatch(c, cur, limit) == Take(SortedSeq({p \in qdrant[c] : p >= cur}), limit)

\* ... and the id the next page starts at, absent when nothing is left
ScrollNext(c, cur, limit) ==
    LET rest == SortedSeq({p \in qdrant[c] : p >= cur})
    IN  IF Len(rest) > limit THEN rest[limit + 1] ELSE None

\* Oracle: the ids among `ids` that have a row
OracleKnown(ids) == Range(ids) \cap pg

\* Pruner: the collection without the ids
PrunerDelete(c, ids) == [qdrant EXCEPT ![c] = @ \ Range(ids)]

(* ---- the Driver's own computations ------------------------------------ *)
\* line 39: Some(uuid::Uuid::nil().to_string())
InitialOffset == NilUuid

\* line 45 asking for a page one point smaller than the page size
ScrollLimitShort == PageSize - 1

\* line 45 asking for twice the page size
ScrollLimitDouble == PageSize + PageSize

\* line 45: Some(1000), scaled to the model
ScrollLimit == PageSize

\* the filter of line 55 without its negation
NotInPgNegationDropped(ids, known) == SelectSeq(ids, LAMBDA x : x \in known)

\* `find` in place of `filter` at line 55: the first such id only
NotInPgFirstOnly(ids, known) == Take(SelectSeq(ids, LAMBDA x : x \notin known), 1)

\* lines 53-57: the ids of the page the Oracle did not return, in page order
NotInPg(ids, known) == SelectSeq(ids, LAMBDA x : x \notin known)

\* line 59 with `< 0`
ShouldDeleteNever(v) == Len(v) < 0

\* line 59 with `>= 0`
ShouldDeleteAlways(v) == Len(v) >= 0

\* line 59
ShouldDelete(v) == Len(v) > 0

Call(op, cursor, ids, ok, applied, out, next) ==
    [op |-> op, col |-> collection, cursor |-> cursor, ids |-> ids, ok |-> ok,
     applied |-> applied, out |-> out, next |-> next, pgThen |-> pg]

\* line 36 iterating without consuming: the same collection is taken again
NextCollectionNoPop(list) ==
    IF list = <<>>
    THEN /\ pc' = "done"
         /\ offset' = None
         /\ UNCHANGED <<collections, collection>>
    ELSE /\ pc' = "scroll"
         /\ collection' = Head(list)
         /\ collections' = list
         /\ offset' = InitialOffset

\* line 39 run for the first collection only: later collections start from the
\* cursor the previous collection was last scanned with
NextCollectionStaleOffset(list) ==
    IF list = <<>>
    THEN /\ pc' = "done"
         /\ offset' = None
         /\ UNCHANGED <<collections, collection>>
    ELSE /\ pc' = "scroll"
         /\ collection' = Head(list)
         /\ collections' = Tail(list)
         /\ offset' = IF pc = "enumerate" THEN InitialOffset ELSE offset

\* line 36: the for loop takes the next collection, or main returns Ok(()) (line 72)
NextCollection(list) ==
    IF list = <<>>
    THEN /\ pc' = "done"
         /\ offset' = None
         /\ UNCHANGED <<collections, collection>>
    ELSE /\ pc' = "scroll"
         /\ collection' = Head(list)
         /\ collections' = Tail(list)
         /\ offset' = InitialOffset

\* line 68 as `offset = None`: the while loop ends after the first page
AdvanceOnePage(next) ==
    /\ doneCols' = doneCols \cup {collection}
    /\ NextCollection(collections)

\* line 68 missing: the cursor never moves
AdvanceStuck(next) ==
    /\ offset' = offset
    /\ pc' = "scroll"
    /\ UNCHANGED <<collections, collection, doneCols>>

\* line 68 taking the last id of the page as the cursor of the next page
AdvanceLastOfPage(next) ==
    IF next # None
    THEN /\ offset' = qdrant_point_ids[Len(qdrant_point_ids)]
         /\ pc' = "scroll"
         /\ UNCHANGED <<collections, collection, doneCols>>
    ELSE /\ doneCols' = doneCols \cup {collection}
         /\ NextCollection(collections)

\* line 68 and the loop tests that follow it (lines 41, 36)
Advance(next) ==
    IF next # None
    THEN /\ offset' = next
         /\ pc' = "scroll"
         /\ UNCHANGED <<collections, collection, doneCols>>
    ELSE /\ doneCols' = doneCols \cup {collection}
         /\ NextCollection(collections)

(* ---- main -------------------------------------------------------------- *)
\* line 34, Ok
GetCollectionsOk ==
    /\ pc = "enumerate"
    /\ Len(calls) < MaxLog
    /\ \E order \in Perms(hosted) :
         /\ enumerated' = order
         /\ calls' = Append(calls, Call("collections", None, <<>>, TRUE, FALSE, order, None))
         /\ NextCollection(order)
    /\ UNCHANGED <<stores, qdrant_point_ids, new_offset, pg_point_ids,
                   qdrant_point_ids_not_in_pg, doneCols, run, prevOk, aborted,
                   writes, q0, pg0, qRunStart>>

\* line 34, Err: `?` returns from main
GetCollectionsErr ==
    /\ pc = "enumerate"
    /\ Len(calls) < MaxLog
    /\ calls' = Append(calls, Call("collections", None, <<>>, FALSE, FALSE, <<>>, None))
    /\ pc' = "failed"
    /\ UNCHANGED <<stores, locals, history, writes>>

\* lines 42-47 passing the starting cursor instead of cur_offset
ScrollOkFromStart ==
    /\ pc = "scroll"
    /\ Len(calls) < MaxLog
    /\ qdrant_point_ids' = ScrollBatch(collection, InitialOffset, ScrollLimit)
    /\ new_offset' = ScrollNext(collection, InitialOffset, ScrollLimit)
    /\ calls' = Append(calls, Call("scroll", InitialOffset, <<>>, TRUE, FALSE,
                                   qdrant_point_ids', new_offset'))
    /\ pc' = "check"
    /\ UNCHANGED <<stores, collections, collection, offset, pg_point_ids,
                   qdrant_point_ids_not_in_pg, history, writes>>

\* lines 42-47, Ok
ScrollOk ==
    /\ pc = "scroll"
    /\ Len(calls) < MaxLog
    /\ qdrant_point_ids' = ScrollBatch(collection, offset, ScrollLimit)
    /\ new_offset' = ScrollNext(collection, offset, ScrollLimit)
    /\ calls' = Append(calls, Call("scroll", offset, <<>>, TRUE, FALSE,
                                   qdrant_point_ids', new_offset'))
    /\ pc' = "check"
    /\ UNCHANGED <<stores, collections, collection, offset, pg_point_ids,
                   qdrant_point_ids_not_in_pg, history, writes>>

\* lines 42-47 with `.unwrap_or_default()` in place of `?`: an empty last page
ScrollErrSwallowed ==
    /\ pc = "scroll"
    /\ Len(calls) < MaxLog
    /\ qdrant_point_ids' = <<>>
    /\ new_offset' = None
    /\ calls' = Append(calls, Call("scroll", offset, <<>>, FALSE, FALSE, <<>>, None))
    /\ pc' = "check"
    /\ UNCHANGED <<stores, collections, collection, offset, pg_point_ids,
                   qdrant_point_ids_not_in_pg, history, writes>>

\* lines 42-47, Err
ScrollErr ==
    /\ pc = "scroll"
    /\ Len(calls) < MaxLog
    /\ calls' = Append(calls, Call("scroll", offset, <<>>, FALSE, FALSE, <<>>, None))
    /\ pc' = "failed"
    /\ UNCHANGED <<stores, locals, history, writes>>

\* lines 49-59 with the Oracle call skipped for an empty page
CheckOkSkipEmpty ==
    /\ pc = "check"
    /\ Len(calls) < MaxLog
    /\ pg_point_ids' = OracleKnown(qdrant_point_ids)
    /\ qdrant_point_ids_not_in_pg' = NotInPg(qdrant_point_ids, pg_point_ids')
    /\ calls' = IF qdrant_point_ids = <<>> THEN calls
                ELSE Append(calls, Call("check", None, qdrant_point_ids, TRUE, FALSE,
                                        SortedSeq(pg_point_ids'), None))
    /\ IF ShouldDelete(qdrant_point_ids_not_in_pg')
       THEN /\ pc' = "delete"
            /\ UNCHANGED <<collections, collection, offset, doneCols>>
       ELSE Advance(new_offset)
    /\ UNCHANGED <<stores, qdrant_point_ids, new_offset, enumerated, run, prevOk,
                   aborted, writes, q0, pg0, qRunStart>>

\* lines 49-59 leaving the loop as soon as the next cursor is absent: the
\* orphans of the last page are not deleted
CheckOkSkipLast ==
    /\ pc = "check"
    /\ Len(calls) < MaxLog
    /\ pg_point_ids' = OracleKnown(qdrant_point_ids)
    /\ qdrant_point_ids_not_in_pg' = NotInPg(qdrant_point_ids, pg_point_ids')
    /\ calls' = Append(calls, Call("check", None, qdrant_point_ids, TRUE, FALSE,
                                   SortedSeq(pg_point_ids'), None))
    /\ IF ShouldDelete(qdrant_point_ids_not_in_pg') /\ new_offset # None
       THEN /\ pc' = "delete"
            /\ UNCHANGED <<collections, collection, offset, doneCols>>
       ELSE Advance(new_offset)
    /\ UNCHANGED <<stores, qdrant_point_ids, new_offset, enumerated, run, prevOk,
                   aborted, writes, q0, pg0, qRunStart>>

\* lines 49-59 (and 68 when there is nothing to delete), Ok
CheckOk ==
    /\ pc = "check"
    /\ Len(calls) < MaxLog
    /\ pg_point_ids' = OracleKnown(qdrant_point_ids)
    /\ qdrant_point_ids_not_in_pg' = NotInPg(qdrant_point_ids, pg_point_ids')
    /\ calls' = Append(calls, Call("check", None, qdrant_point_ids, TRUE, FALSE,
                                   SortedSeq(pg_point_ids'), None))
    /\ IF ShouldDelete(qdrant_point_ids_not_in_pg')
       THEN /\ pc' = "delete"
            /\ UNCHANGED <<collections, collection, offset, doneCols>>
       ELSE Advance(new_offset)
    /\ UNCHANGED <<stores, qdrant_point_ids, new_offset, enumerated, run, prevOk,
                   aborted, writes, q0, pg0, qRunStart>>

\* lines 49-51, Err
CheckErr ==
    /\ pc = "check"
    /\ Len(calls) < MaxLog
    /\ calls' = Append(calls, Call("check", None, qdrant_point_ids, FALSE, FALSE, <<>>, None))
    /\ pc' = "failed"
    /\ UNCHANGED <<stores, locals, history, writes>>

\* line 65 passing the first enumerated collection instead of `collection`
DeleteOkWrongCollection ==
    /\ pc = "delete"
    /\ Len(calls) < MaxLog
    /\ qdrant' = PrunerDelete(enumerated[1], qdrant_point_ids_not_in_pg)
    /\ calls' = Append(calls, Call("delete", None, qdrant_point_ids_not_in_pg, TRUE, TRUE,
                                   <<>>, None))
    /\ Advance(new_offset)
    /\ UNCHANGED <<hosted, pg, qdrant_point_ids, new_offset, pg_point_ids,
                   qdrant_point_ids_not_in_pg, enumerated, run, prevOk, aborted,
                   writes, q0, pg0, qRunStart>>

\* line 65 preceded by a second existence check: only ids still without a row
DeleteOkRecheck ==
    /\ pc = "delete"
    /\ Len(calls) < MaxLog
    /\ LET still == SelectSeq(qdrant_point_ids_not_in_pg, LAMBDA x : x \notin pg)
       IN  /\ qdrant' = PrunerDelete(collection, still)
           /\ calls' = Append(calls, Call("delete", None, still, TRUE, TRUE, <<>>, None))
    /\ Advance(new_offset)
    /\ UNCHANGED <<hosted, pg, qdrant_point_ids, new_offset, pg_point_ids,
                   qdrant_point_ids_not_in_pg, enumerated, run, prevOk, aborted,
                   writes, q0, pg0, qRunStart>>

\* lines 65-68, Ok
DeleteOk ==
    /\ pc = "delete"
    /\ Len(calls) < MaxLog
    /\ qdrant' = PrunerDelete(collection, qdrant_point_ids_not_in_pg)
    /\ calls' = Append(calls, Call("delete", None, qdrant_point_ids_not_in_pg, TRUE, TRUE,
                                   <<>>, None))
    /\ Advance(new_offset)
    /\ UNCHANGED <<hosted, pg, qdrant_point_ids, new_offset, pg_point_ids,
                   qdrant_point_ids_not_in_pg, enumerated, run, prevOk, aborted,
                   writes, q0, pg0, qRunStart>>

\* line 65 with `let _ =` in place of `?`: the failure is dropped and the loop goes on
DeleteErrSwallowed ==
    /\ pc = "delete"
    /\ Len(calls) < MaxLog
    /\ calls' = Append(calls, Call("delete", None, qdrant_point_ids_not_in_pg, FALSE,
                                   FALSE, <<>>, None))
    /\ Advance(new_offset)
    /\ UNCHANGED <<stores, qdrant_point_ids, new_offset, pg_point_ids,
                   qdrant_point_ids_not_in_pg, enumerated, run, prevOk, aborted,
                   writes, q0, pg0, qRunStart>>

\* line 65, Err: the delete may or may not have reached the store
DeleteErr ==
    /\ pc = "delete"
    /\ Len(calls) < MaxLog
    /\ \E applied \in BOOLEAN :
         /\ qdrant' = IF applied THEN PrunerDelete(collection, qdrant_point_ids_not_in_pg)
                      ELSE qdrant
         /\ calls' = Append(calls, Call("delete", None, qdrant_point_ids_not_in_pg, FALSE,
                                        applied, <<>>, None))
    /\ pc' = "failed"
    /\ UNCHANGED <<hosted, pg, locals, history, writes>>

\* the job is invoked again and picks up a persisted collection and cursor
RestartFromCheckpoint ==
    /\ pc \in {"done", "failed", "killed"}
    /\ run < MaxRuns
    /\ run' = run + 1
    /\ prevOk' = (pc = "done")
    /\ aborted' = (aborted \/ pc # "done")
    /\ qRunStart' = qdrant
    /\ qdrant_point_ids' = <<>>
    /\ new_offset' = None
    /\ pg_point_ids' = {}
    /\ qdrant_point_ids_not_in_pg' = <<>>
    /\ calls' = <<>>
    /\ IF pc = "killed" /\ collection # NoCollection /\ offset # None
       THEN /\ pc' = "scroll"
            /\ UNCHANGED <<collections, collection, offset, enumerated, doneCols>>
       ELSE /\ pc' = "enumerate"
            /\ collections' = <<>>
            /\ collection' = NoCollection
            /\ offset' = None
            /\ enumerated' = <<>>
            /\ doneCols' = {}
    /\ UNCHANGED <<stores, writes, q0, pg0>>

\* the job is invoked again: a new process, main from its first line
Restart ==
    /\ pc \in {"done", "failed", "killed"}
    /\ run < MaxRuns
    /\ run' = run + 1
    /\ prevOk' = (pc = "done")
    /\ aborted' = (aborted \/ pc # "done")
    /\ qRunStart' = qdrant
    /\ pc' = "enumerate"
    /\ collections' = <<>>
    /\ collection' = NoCollection
    /\ offset' = None
    /\ qdrant_point_ids' = <<>>
    /\ new_offset' = None
    /\ pg_point_ids' = {}
    /\ qdrant_point_ids_not_in_pg' = <<>>
    /\ calls' = <<>>
    /\ enumerated' = <<>>
    /\ doneCols' = {}
    /\ UNCHANGED <<stores, writes, q0, pg0>>

\* the process is terminated from outside (main installs no signal handler and
\* takes no cancellation token): main stops wherever it is, whatever call is
\* outstanding
Kill ==
    /\ pc \in {"enumerate", "scroll", "check", "delete"}
    /\ pc' = "killed"
    /\ UNCHANGED <<stores, locals, calls, history, writes>>

(* ---- the other parties -------------------------------------------------- *)
PgInsert ==
    /\ writes < MaxWrites
    /\ \E p \in PointIds \ pg : pg' = pg \cup {p}
    /\ writes' = writes + 1
    /\ UNCHANGED <<hosted, qdrant, pc, locals, calls, history>>

PgDelete ==
    /\ writes < MaxWrites
    /\ \E p \in pg : pg' = pg \ {p}
    /\ writes' = writes + 1
    /\ UNCHANGED <<hosted, qdrant, pc, locals, calls, history>>

QdrantUpsert ==
    /\ writes < MaxWrites
    /\ \E c \in hosted : \E p \in PointIds \ qdrant[c] :
         qdrant' = [qdrant EXCEPT ![c] = @ \cup {p}]
    /\ writes' = writes + 1
    /\ UNCHANGED <<hosted, pg, pc, locals, calls, history>>

QdrantRemove ==
    /\ writes < MaxWrites
    /\ \E c \in hosted : \E p \in qdrant[c] :
         qdrant' = [qdrant EXCEPT ![c] = @ \ {p}]
    /\ writes' = writes + 1
    /\ UNCHANGED <<hosted, pg, pc, locals, calls, history>>

CreateCollection ==
    /\ writes < MaxWrites
    /\ \E c \in CollectionNames \ hosted : hosted' = hosted \cup {c}
    /\ writes' = writes + 1
    /\ UNCHANGED <<qdrant, pg, pc, locals, calls, history>>

(* ---- specification ------------------------------------------------------ *)
Init ==
    /\ hosted \in SUBSET CollectionNames
    /\ qdrant \in [CollectionNames -> SUBSET PointIds]
    /\ \A c \in CollectionNames \ hosted : qdrant[c] = {}
    /\ pg \in SUBSET PointIds
    /\ pc = "enumerate"
    /\ collections = <<>>
    /\ collection = NoCollection
    /\ offset = None
    /\ qdrant_point_ids = <<>>
    /\ new_offset = None
    /\ pg_point_ids = {}
    /\ qdrant_point_ids_not_in_pg = <<>>
    /\ calls = <<>>
    /\ enumerated = <<>>
    /\ doneCols = {}
    /\ run = 1
    /\ prevOk = FALSE
    /\ aborted = FALSE
    /\ writes = 0
    /\ q0 = qdrant
    /\ pg0 = pg
    /\ qRunStart = qdrant

Driver ==
    \/ GetCollectionsOk
    \/ ScrollOk
    \/ CheckOk
    \/ DeleteOk

Next ==
    \/ GetCollectionsOk
    \/ GetCollectionsErr
    \/ ScrollOk
    \/ ScrollErr
    \/ CheckOk
    \/ CheckErr
    \/ DeleteOk
    \/ DeleteErr
    \/ Restart
    \/ PgInsert
    \/ PgDelete
    \/ QdrantUpsert
    \/ QdrantRemove
    \/ CreateCollection

Spec == Init /\ [][Next]_vars

\* the run when the process may also be terminated from outside
NextOrKill ==
    \/ Next
    \/ Kill

CancelSpec == Init /\ [][NextOrKill]_vars

\* the run when no collaborator fails
NextNoErr ==
    \/ GetCollectionsOk
    \/ ScrollOk
    \/ CheckOk
    \/ DeleteOk
    \/ PgInsert
    \/ PgDelete
    \/ QdrantUpsert
    \/ QdrantRemove
    \/ CreateCollection

\* main is one sequential task: a collaborator call that does not fail returns
LiveSpec == Init /\ [][NextNoErr]_vars /\ WF_vars(Driver)

TypeOK ==
    /\ pc \in {"enumerate", "scroll", "check", "delete", "done", "failed", "killed"}
    /\ offset \in PointIds \cup {None}
    /\ new_offset \in PointIds \cup {None}
    /\ Len(calls) < MaxLog

(* ---- reading the history ------------------------------------------------ *)
Idx(op, c) == {i \in DOMAIN calls : calls[i].op = op /\ calls[i].col = c}

\* how often a Scanner page of collection c held p / p was sent to the Oracle
Visits(c, p) ==
    Cardinality({ij \in (DOMAIN calls) \X (1..(MaxPoint + 1)) :
                    /\ ij[1] \in Idx("scroll", c)
                    /\ ij[2] \in DOMAIN calls[ij[1]].out
                    /\ calls[ij[1]].out[ij[2]] = p})

Checks(c, p) ==
    Cardinality({ij \in (DOMAIN calls) \X (1..(MaxPoint + 1)) :
                    /\ ij[1] \in Idx("check", c)
                    /\ ij[2] \in DOMAIN calls[ij[1]].ids
                    /\ calls[ij[1]].ids[ij[2]] = p})

\* what the Pruner calls of this run removed from collection c
AppliedDeletes(c) ==
    UNION {Range(calls[i].ids) : i \in {j \in Idx("delete", c) : calls[j].applied}}

\* pages a quiet scan of n points takes (an empty collection answers one empty page)
PagesOf(n) == IF n = 0 THEN 1 ELSE (n + PageSize - 1) \div PageSize

(* ---- claims -------------------------------------------------------------- *)

\* C1: every Pruner call directly follows the Oracle call of the same page of the
\* same collection, and every identifier it carries belongs to that page, was
\* not returned by that Oracle call and had no row in the relational store when
\* that Oracle call was made.
NoFalsePositiveDeletion ==
    \A i \in DOMAIN calls :
        calls[i].op = "delete" =>
            /\ i > 1
            /\ calls[i - 1].op = "check"
            /\ calls[i - 1].ok
            /\ calls[i - 1].col = calls[i].col
            /\ \A x \in Range(calls[i].ids) :
                 /\ x \in Range(calls[i - 1].ids)
                 /\ x \notin Range(calls[i - 1].out)
                 /\ x \notin calls[i - 1].pgThen

\* a Pruner call has succeeded for a page that was checked after another party
\* had changed the relational store
NoFalsePositiveDeletionWitness ==
    \E i \in DOMAIN calls :
        /\ calls[i].op = "delete"
        /\ calls[i].ok
        /\ calls[i].ids # <<>>
        /\ calls[i - 1].pgThen # pg0

\* C2: when the first run returns Ok and no other party has written, every
\* collection holds exactly its initial points that have a row, and the Pruner
\* calls of the run removed exactly its initial points that have none.
ExactOnePass ==
    (pc = "done" /\ run = 1 /\ writes = 0) =>
        \A c \in CollectionNames :
            /\ qdrant[c] = q0[c] \cap pg0
            /\ AppliedDeletes(c) = q0[c] \ pg0

\* the example of the spec: {A, B, C} with rows {A, C} ends as {A, C}, B deleted
ExactOnePassWitness ==
    /\ pc = "done" /\ run = 1 /\ writes = 0
    /\ pg0 = {0, 2}
    /\ \E c \in CollectionNames :
         /\ q0[c] = {0, 1, 2}
         /\ qdrant[c] = {0, 2}
         /\ AppliedDeletes(c) = {1}

\* C3: in a run that follows a run that returned Ok, with no write by another
\* party, every Oracle call returns its whole page (no orphan), no Pruner call is
\* made or pending, and the vector store is as it was when the run started.
Idempotent ==
    (run > 1 /\ prevOk /\ writes = 0) =>
        /\ \A i \in DOMAIN calls : calls[i].op # "delete"
        /\ pc # "delete"
        /\ \A i \in DOMAIN calls :
             (calls[i].op = "check" /\ calls[i].ok) =>
                 Range(calls[i].ids) \subseteq Range(calls[i].out)
        /\ qdrant = qRunStart

\* the second run has ended after a first run that deleted orphans on two pages
IdempotentWitness ==
    /\ run = 2 /\ prevOk /\ writes = 0 /\ pc = "done"
    /\ \E c \in CollectionNames :
         /\ Cardinality(q0[c] \ pg0) >= 2
         /\ Cardinality(q0[c]) > PageSize
         /\ qdrant[c] # {}
         /\ Cardinality(Idx("check", c)) >= 1

\* C4: a failed collaborator call is the last call of its run, the run has
\* failed exactly when its last call failed, and a run that returned Ok made
\* only successful calls and ended the loop of every enumerated collection.
FailFast ==
    /\ \A i \in DOMAIN calls : ~calls[i].ok => i = Len(calls)
    /\ (pc = "failed") <=> (calls # <<>> /\ ~calls[Len(calls)].ok)
    /\ pc = "done" =>
         /\ \A i \in DOMAIN calls : calls[i].ok
         /\ calls # <<>> /\ calls[1].op = "collections"
         /\ doneCols = Range(enumerated)
    /\ pc = "failed" =>
         \A c \in Range(collections) : Idx("scroll", c) = {}

\* the Scanner failed on the second page of the first collection, which still
\* has orphans on it; a second collection was never started
FailFastWitness ==
    /\ pc = "failed"
    /\ Len(collections) = 1
    /\ Len(calls) > 3
    /\ calls[Len(calls)].op = "scroll"
    /\ Idx("scroll", collections[1]) = {}
    /\ qdrant[collection] \ pg # {}

\* C5: when no collaborator fails and the other parties write a bounded number
\* of times, every Scanner call of a collection is made with a greater cursor
\* than the ones before it, the while loop of every collection the Driver starts
\* on eventually ends (its Scanner returns an absent next cursor), and main
\* eventually returns Ok.
ScanTerminates ==
    /\ [](\A c \in CollectionNames : \A i, j \in Idx("scroll", c) :
             i < j => calls[i].cursor < calls[j].cursor)
    /\ \A c \in CollectionNames :
         (collection = c /\ pc = "scroll") ~> (c \in doneCols)
    /\ <>(pc = "done")

\* a run has ended although a point was inserted into a collection, which was
\* returned on the second page of that collection
ScanTerminatesWitness ==
    /\ pc = "done"
    /\ writes > 0
    /\ \E c \in CollectionNames :
         /\ Cardinality(qdrant[c]) > Cardinality(q0[c])
         /\ Cardinality(Idx("scroll", c)) = 2
         /\ \E i \in Idx("scroll", c) :
              /\ calls[i].cursor # InitialOffset
              /\ Range(calls[i].out) \ q0[c] # {}

\* C6: with no write by another party, no identifier is returned in two pages of
\* a collection or sent twice to the Oracle, and once the while loop of a
\* collection has ended every point the collection held when the run started
\* was returned in exactly one page and sent to the Oracle exactly once, and
\* no other identifier was.
ScanComplete ==
    writes = 0 =>
        \A c \in CollectionNames : \A p \in PointIds :
            /\ Visits(c, p) <= 1
            /\ Checks(c, p) <= 1
            /\ c \in doneCols =>
                 /\ Visits(c, p) = (IF p \in qRunStart[c] THEN 1 ELSE 0)
                 /\ Checks(c, p) = (IF p \in qRunStart[c] THEN 1 ELSE 0)

\* the loop of a collection that took two pages has ended
ScanCompleteWitness ==
    /\ writes = 0
    /\ \E c \in doneCols :
         /\ Cardinality(qRunStart[c]) > PageSize
         /\ Cardinality(Idx("scroll", c)) = 2
         /\ \A p \in qRunStart[c] : Visits(c, p) = 1

\* C7, as the spec states it: the Oracle is called with a non-empty page only.
OracleOnlyOnNonEmptyBatch ==
    \A i \in DOMAIN calls : calls[i].op = "check" => calls[i].ids # <<>>

\* C7, amended: every page the Scanner returns, empty or not, is sent to the
\* Oracle in the next call, and the Oracle is called for nothing else; an empty
\* page is never followed by a Pruner call; a collection whose first page is
\* empty with an absent next cursor is done after one Scanner call, one Oracle
\* call with no identifier and no Pruner call, and loses no point.
OracleOnEveryBatch ==
    /\ \A i \in DOMAIN calls :
         (calls[i].op = "scroll" /\ calls[i].ok) =>
             IF i = Len(calls) THEN pc = "check"
             ELSE /\ calls[i + 1].op = "check"
                  /\ calls[i + 1].col = calls[i].col
                  /\ calls[i + 1].ids = calls[i].out
    /\ \A i \in DOMAIN calls :
         calls[i].op = "check" =>
             /\ i > 1 /\ calls[i - 1].op = "scroll" /\ calls[i - 1].ok
             /\ (calls[i].ids = <<>> /\ i < Len(calls)) => calls[i + 1].op # "delete"
             /\ (calls[i].ids = <<>> /\ i = Len(calls)) => pc # "delete"
    /\ \A c \in doneCols :
         (\E i \in Idx("scroll", c) :
              /\ calls[i].cursor = InitialOffset
              /\ calls[i].out = <<>>
              /\ calls[i].next = None) =>
             /\ Cardinality(Idx("scroll", c)) = 1
             /\ Cardinality(Idx("check", c)) = 1
             /\ \A i \in Idx("check", c) : calls[i].ids = <<>> /\ calls[i].ok
             /\ Idx("delete", c) = {}
             /\ writes = 0 => qdrant[c] = qRunStart[c]

\* the loop of an empty collection has ended: its one page was sent to the Oracle
OracleOnEveryBatchWitness ==
    \E c \in doneCols :
        /\ qRunStart[c] = {}
        /\ writes = 0
        /\ \E i \in Idx("scroll", c) :
             /\ calls[i].out = <<>>
             /\ calls[i].next = None
             /\ calls[i + 1].op = "check"
             /\ calls[i + 1].ids = <<>>

\* C8: no Pruner call carries an empty identifier list, and a successful Oracle
\* call is followed by a Pruner call (made or about to be made) exactly when
\* some identifier of its page was not returned by it.
NoEmptyDelete ==
    /\ \A i \in DOMAIN calls : calls[i].op = "delete" => calls[i].ids # <<>>
    /\ pc = "delete" => qdrant_point_ids_not_in_pg # <<>>
    /\ \A i \in DOMAIN calls :
         (calls[i].op = "check" /\ calls[i].ok) =>
             LET orphans == Range(calls[i].ids) \ Range(calls[i].out)
             IN  IF i = Len(calls)
                 THEN (pc = "delete") <=> (orphans # {})
                 ELSE (calls[i + 1].op = "delete") <=> (orphans # {})

\* a non-empty page without orphans was checked and the Scanner was called next
NoEmptyDeleteWitness ==
    \E i \in DOMAIN calls :
        /\ calls[i].op = "check"
        /\ calls[i].ok
        /\ calls[i].ids # <<>>
        /\ Range(calls[i].ids) \subseteq Range(calls[i].out)
        /\ i < Len(calls)
        /\ calls[i + 1].op = "scroll"

\* C9: with no write by another party, a collection whose loop has ended took
\* one Scanner call per page of PageSize of the points it held when the run
\* started (one call when it held none); each of these calls is followed by one
\* Oracle call and then, exactly when the page holds a point without a row, by
\* one Pruner call for the same collection carrying exactly the points of that
\* page without a row, in page order; there is no other Pruner call for it.
PerPageCalls ==
    writes = 0 =>
        \A c \in doneCols :
            /\ Cardinality(Idx("scroll", c)) = PagesOf(Cardinality(qRunStart[c]))
            /\ \A i \in Idx("scroll", c) :
                 LET orphans == SelectSeq(calls[i].out, LAMBDA x : x \notin pg0)
                 IN  /\ i + 1 <= Len(calls)
                     /\ calls[i + 1].op = "check"
                     /\ IF orphans # <<>>
                        THEN /\ i + 2 <= Len(calls)
                             /\ calls[i + 2].op = "delete"
                             /\ calls[i + 2].col = c
                             /\ calls[i + 2].ids = orphans
                        ELSE i + 2 <= Len(calls) => calls[i + 2].op # "delete"
            /\ Cardinality(Idx("delete", c)) =
                   Cardinality({i \in Idx("scroll", c) : ~(Range(calls[i].out) \subseteq pg0)})

\* the example of the spec: pages {D, E} (orphan D) and {F} (no orphan): two
\* Scanner calls, one Pruner call deleting {D}
PerPageCallsWitness ==
    /\ writes = 0
    /\ pg0 = {1, 2}
    /\ \E c \in doneCols :
         /\ qRunStart[c] = {0, 1, 2}
         /\ Cardinality(Idx("scroll", c)) = 2
         /\ Cardinality(Idx("delete", c)) = 1
         /\ \A i \in Idx("delete", c) : calls[i].ids = <<0>>

\* C10: the vector store always is what it was at the start of the run less
\* what the Pruner calls of the run removed (a failure undoes nothing), and a
\* run that returns Ok after an earlier run was aborted, with no write by
\* another party, leaves every collection with exactly its initial points that
\* have a row: the state a single run without failure ends in.
SafeResume ==
    writes = 0 =>
        /\ \A c \in CollectionNames : qdrant[c] = qRunStart[c] \ AppliedDeletes(c)
        /\ (aborted /\ pc = "done") =>
               \A c \in CollectionNames : qdrant[c] = q0[c] \cap pg0

\* a run was aborted after it had deleted some orphans, and the next run has
\* deleted the others and returned Ok
SafeResumeWitness ==
    /\ writes = 0
    /\ aborted
    /\ run = 2
    /\ pc = "done"
    /\ qRunStart # q0
    /\ qdrant # qRunStart

\* C11, as the spec states it: the job is stopped between batch iterations only,
\* never while the Oracle or Pruner call of a page is outstanding.
CancelOnlyBetweenIterations ==
    [][pc' = "killed" => pc \notin {"check", "delete"}]_vars

\* C11, amended: the job has no cancellation of its own; when the process is
\* terminated, wherever main is, no further call is made in that run and none of
\* main's variables changes; the cursor is not persisted: the next invocation
\* starts with no collection and no cursor, enumerates the collections again and
\* begins every collection at the starting cursor.
StopLosesCursor ==
    /\ [][pc = "killed" =>
            \/ pc' = "killed" /\ UNCHANGED <<calls, locals, enumerated, doneCols>>
            \/ /\ pc' = "enumerate"
               /\ calls' = <<>>
               /\ collections' = <<>>
               /\ collection' = NoCollection
               /\ offset' = None
               /\ doneCols' = {}]_vars
    /\ [](calls # <<>> =>
            /\ calls[1].op = "collections"
            /\ \A i \in DOMAIN calls :
                 (calls[i].op = "scroll" /\ calls[i - 1].col # calls[i].col) =>
                     calls[i].cursor = InitialOffset)

\* the process was terminated on the second page of a collection while the
\* Oracle call of that page was outstanding
StopLosesCursorWitness ==
    /\ pc = "killed"
    /\ offset # InitialOffset
    /\ calls # <<>>
    /\ calls[Len(calls)].op = "scroll"
    /\ calls[Len(calls)].ok
    /\ calls[Len(calls)].out # <<>>

\* position of a collection in the list the enumeration returned
Pos(c) == CHOOSE k \in DOMAIN enumerated : enumerated[k] = c

\* C12: the enumeration is the first call of a run and is never made again;
\* every other call is for a collection of the returned list (so never for a
\* collection created later); collections are taken in list order, a call for
\* one is made only when the loops of all earlier ones have ended, the
\* collection being worked on has not been done before, and a run that returns
\* Ok has done every collection of the list.
EnumeratedOnce ==
    /\ \A i \in DOMAIN calls : (calls[i].op = "collections") <=> (i = 1)
    /\ \A i, j \in DOMAIN enumerated : enumerated[i] = enumerated[j] => i = j
    /\ \A i \in DOMAIN calls :
         i > 1 =>
             /\ calls[i].col \in Range(enumerated)
             /\ \A k \in 1..(Pos(calls[i].col) - 1) : enumerated[k] \in doneCols
             /\ \A j \in DOMAIN calls :
                  (1 < j /\ j < i) => Pos(calls[j].col) <= Pos(calls[i].col)
    /\ pc \in {"scroll", "check", "delete"} =>
         /\ collection \in Range(enumerated)
         /\ collection \notin doneCols
    /\ doneCols \subseteq Range(enumerated)
    /\ pc = "done" =>
         /\ doneCols = Range(enumerated)
         /\ \A c \in doneCols : Idx("scroll", c) # {}

\* a run has returned Ok without a call for a collection that was created
\* after its enumeration
EnumeratedOnceWitness ==
    /\ pc = "done"
    /\ enumerated # <<>>
    /\ \E c \in hosted \ Range(enumerated) :
         \A i \in DOMAIN calls : calls[i].col # c

\* C13: a Pruner call carries exactly the ids of the page that had no row when
\* the Oracle was called, whatever rows exist when the Pruner is called (no
\* second check), and the store no longer holds them once the call has been
\* applied; an id that has a row when the Pruner is called got it after the
\* Oracle call, so when no row was inserted in between no deleted id has a row.
AcceptedRace ==
    /\ [](\A i \in DOMAIN calls :
            calls[i].op = "delete" =>
                /\ calls[i].ids =
                       SelectSeq(calls[i - 1].ids, LAMBDA x : x \notin calls[i - 1].pgThen)
                /\ \A x \in Range(calls[i].ids) :
                     x \in calls[i].pgThen => x \notin calls[i - 1].pgThen
                /\ calls[i].pgThen \subseteq calls[i - 1].pgThen =>
                       Range(calls[i].ids) \cap calls[i].pgThen = {})
    /\ [][(Len(calls') = Len(calls) + 1
             /\ calls'[Len(calls')].op = "delete"
             /\ calls'[Len(calls')].applied) =>
                Range(calls'[Len(calls')].ids) \cap qdrant'[collection] = {}]_vars

\* a point was deleted although it had a row when the Pruner was called: the
\* row was inserted after the Oracle call of its page
AcceptedRaceWitness ==
    \E i \in DOMAIN calls :
        /\ calls[i].op = "delete"
        /\ calls[i].ok
        /\ \E x \in Range(calls[i].ids) :
             /\ x \in calls[i].pgThen
             /\ x \in pg
             /\ x \notin qdrant[calls[i].col]

\* the Scanner call of the page before the call at i (i is not the first call
\* of its collection)
PrevScroll(i) ==
    CHOOSE k \in 1..(i - 1) :
        /\ calls[k].op = "scroll"
        /\ \A m \in (k + 1)..(i - 1) : calls[m].op # "scroll"

\* C14: the calls of a run come in the order scan, existence check, delete (if
\* the page has orphans), next scan: an Oracle call directly follows the
\* successful Scanner call whose page it carries; a Pruner call directly
\* follows a successful Oracle call of the same collection that left orphans;
\* a Scanner call follows the enumeration, a successful Oracle call that left
\* no orphan, or a successful Pruner call, and when it continues a collection
\* its cursor is the next cursor of the page just processed.
StepOrder ==
    \A i \in DOMAIN calls :
        i > 1 =>
            LET prev == calls[i - 1]
                cur == calls[i]
            IN  /\ prev.ok
                /\ cur.op = "check" =>
                     /\ prev.op = "scroll"
                     /\ prev.col = cur.col
                     /\ cur.ids = prev.out
                /\ cur.op = "delete" =>
                     /\ prev.op = "check"
                     /\ prev.col = cur.col
                     /\ Range(cur.ids) = Range(prev.ids) \ Range(prev.out)
                     /\ cur.ids # <<>>
                /\ cur.op = "scroll" =>
                     /\ \/ prev.op = "collections"
                        \/ prev.op = "check" /\ Range(prev.ids) \subseteq Range(prev.out)
                        \/ prev.op = "delete"
                     /\ prev.col = cur.col =>
                          /\ calls[PrevScroll(i)].col = cur.col
                          /\ calls[PrevScroll(i)].next = cur.cursor
                          /\ i - PrevScroll(i) \in {2, 3}

\* the second page of a collection was scanned after the first was scanned,
\* checked and pruned
StepOrderWitness ==
    \E i \in DOMAIN calls :
        /\ i > 4
        /\ calls[i].op = "scroll"
        /\ calls[i - 1].op = "delete"
        /\ calls[i - 2].op = "check"
        /\ calls[i - 3].op = "scroll"
        /\ calls[i - 3].col = calls[i].col
        /\ calls[i].out # <<>>

\* the last call of kind op made for collection c
LastIdx(op, c) == CHOOSE i \in Idx(op, c) : \A j \in Idx(op, c) : j <= i

\* the last call of any kind made for collection c
FinalIdx(c) ==
    CHOOSE i \in DOMAIN calls :
        /\ calls[i].col = c
        /\ \A j \in DOMAIN calls : calls[j].col = c => j <= i

\* C15: the loop of a collection has ended only when its last Scanner call
\* succeeded with an absent next cursor (and no earlier one did), the page of
\* that call was sent to the Oracle, and its orphans, if any, were deleted by a
\* successful Pruner call; that Oracle or Pruner call is the last call made for
\* the collection, and main is not working on the collection any more.
DoneAfterLastPage ==
    \A c \in doneCols :
        /\ Idx("scroll", c) # {}
        /\ LET last == LastIdx("scroll", c)
               orphans == Range(calls[last].out) \ calls[last + 1].pgThen
           IN  /\ calls[last].ok
               /\ calls[last].next = None
               /\ \A i \in Idx("scroll", c) \ {last} : calls[i].next # None
               /\ last + 1 <= Len(calls)
               /\ calls[last + 1].op = "check"
               /\ calls[last + 1].ok
               /\ calls[last + 1].ids = calls[last].out
               /\ IF orphans # {}
                  THEN /\ last + 2 <= Len(calls)
                       /\ calls[last + 2].op = "delete"
                       /\ calls[last + 2].ok
                       /\ calls[last + 2].col = c
                       /\ Range(calls[last + 2].ids) = orphans
                       /\ FinalIdx(c) = last + 2
                  ELSE FinalIdx(c) = last + 1
        /\ pc \in {"scroll", "check", "delete"} => collection # c

\* the last page of a two-page collection had an orphan, which was deleted
\* before the loop ended; main is now calling the Oracle for another collection
DoneAfterLastPageWitness ==
    /\ pc = "check"
    /\ \E c \in doneCols :
         /\ Cardinality(Idx("scroll", c)) = 2
         /\ calls[FinalIdx(c)].op = "delete"
         /\ FinalIdx(c) = LastIdx("scroll", c) + 2

\* C16, as the spec states it: when the Pruner call of a page fails the run
\* fails, and the cursor has by then advanced past that page (it is the next
\* cursor the Scanner returned with the page).
PrunerFailureCursorAdvanced ==
    \A i \in DOMAIN calls :
        (calls[i].op = "delete" /\ ~calls[i].ok) =>
            /\ pc = "failed"
            /\ offset = new_offset

\* C16, amended: a failed Pruner call is the last call of its run and makes the
\* run fail (main returns Err); the loop of its collection has not ended, and
\* the cursor has not advanced: it still is the cursor the page was scanned
\* with, not the next cursor returned with that page.
PrunerFailure ==
    \A i \in DOMAIN calls :
        (calls[i].op = "delete" /\ ~calls[i].ok) =>
            /\ i = Len(calls)
            /\ pc = "failed"
            /\ collection = calls[i].col
            /\ collection \notin doneCols
            /\ calls[i - 2].op = "scroll"
            /\ offset = calls[i - 2].cursor
            /\ new_offset = calls[i - 2].next
            /\ offset # new_offset

\* the Pruner failed on the first page of a collection that has a second page
PrunerFailureWitness ==
    /\ pc = "failed"
    /\ calls # <<>>
    /\ calls[Len(calls)].op = "delete"
    /\ offset = InitialOffset
    /\ new_offset # None

\* the Scanner calls of collection c made before call i
EarlierScrolls(i, c) == {k \in Idx("scroll", c) : k < i}

\* greatest element of a non-empty set of call indices
Latest(S) == CHOOSE k \in S : \A m \in S : m <= k

\* C17: the first Scanner call of every collection is given the nil identifier
\* as its cursor, never the absent cursor and never a cursor of the collection
\* before it; every later Scanner call of the collection is given the next
\* cursor returned by the Scanner call of that collection just before it.
CursorDiscipline ==
    \A i \in DOMAIN calls :
        calls[i].op = "scroll" =>
            IF EarlierScrolls(i, calls[i].col) = {}
            THEN /\ calls[i].cursor = NilUuid
                 /\ calls[i].cursor # None
            ELSE /\ calls[Latest(EarlierScrolls(i, calls[i].col))].ok
                 /\ calls[i].cursor = calls[Latest(EarlierScrolls(i, calls[i].col))].next
                 /\ calls[i].cursor # None

\* the first collection took two pages, its second page was asked for with a
\* cursor other than the nil identifier, and the second collection was then
\* started from the nil identifier
CursorDisciplineWitness ==
    \E i, j, k \in DOMAIN calls :
        /\ i < j /\ j < k
        /\ calls[i].op = "scroll" /\ calls[j].op = "scroll" /\ calls[k].op = "scroll"
        /\ calls[i].col = calls[j].col
        /\ calls[k].col # calls[j].col
        /\ calls[j].cursor = calls[i].next
        /\ calls[j].cursor # NilUuid
        /\ calls[k].cursor = NilUuid

\* a step of the job, as opposed to a write by another party
JobStep == calls' # calls \/ pc' # pc

\* C18: no step of the job changes the relational store or the set of
\* collections, and none adds a point to a collection; a step that removes
\* points is a Pruner call, it removes them from the collection being
\* processed only, and the points removed are among the identifiers of the
\* page just scanned from that collection.
RunFrame ==
    [][JobStep =>
         /\ pg' = pg
         /\ hosted' = hosted
         /\ \A c \in CollectionNames :
              /\ qdrant'[c] \subseteq qdrant[c]
              /\ qdrant'[c] # qdrant[c] =>
                   /\ pc = "delete"
                   /\ c = collection
                   /\ calls[Len(calls)].op = "check"
                   /\ calls[Len(calls) - 1].op = "scroll"
                   /\ calls[Len(calls) - 1].col = c
                   /\ (qdrant[c] \ qdrant'[c]) \subseteq Range(calls[Len(calls) - 1].out)]_vars

\* with no write by another party, the job has removed points from the
\* collection it is processing while another, non-empty collection and the
\* relational store are as they were
RunFrameWitness ==
    /\ writes = 0
    /\ calls # <<>>
    /\ calls[Len(calls)].op = "delete"
    /\ calls[Len(calls)].applied
    /\ qdrant[calls[Len(calls)].col] # q0[calls[Len(calls)].col]
    /\ qdrant[calls[Len(calls)].col] \subseteq q0[calls[Len(calls)].col]
    /\ pg = pg0
    /\ \E d \in CollectionNames \ {calls[Len(calls)].col} :
         qdrant[d] # {} /\ qdrant[d] = q0[d]

\* C19: every page asked of the Scanner is bounded by the page size (a page
\* that is not the last of its collection holds exactly that many
\* identifiers, no page holds more), and every page is sent to the Oracle in
\* one call that carries the whole page and nothing else: each Oracle call
\* directly follows the Scanner call whose page it carries, and a page that
\* has been sent is followed by the Oracle call carrying it.
BatchingBound ==
    /\ \A i \in DOMAIN calls :
         calls[i].op = "scroll" =>
            /\ Len(calls[i].out) <= PageSize
            /\ calls[i].next # None => Len(calls[i].out) = PageSize
            /\ (calls[i].ok /\ i < Len(calls)) =>
                 /\ calls[i + 1].op = "check"
                 /\ calls[i + 1].ids = calls[i].out
            /\ (calls[i].ok /\ i = Len(calls)) =>
                 /\ pc = "check"
                 /\ qdrant_point_ids = calls[i].out
    /\ \A i \in DOMAIN calls :
         calls[i].op = "check" =>
            /\ i > 1
            /\ calls[i - 1].op = "scroll"
            /\ calls[i - 1].ok
            /\ calls[i - 1].col = calls[i].col
            /\ calls[i].ids = calls[i - 1].out
            /\ Len(calls[i].ids) <= PageSize

\* a collection with more points than a page holds: its first page was full,
\* was sent whole to the Oracle, and the rest came in a second page of its own
BatchingBoundWitness ==
    \E i \in DOMAIN calls :
        /\ i + 3 <= Len(calls)
        /\ calls[i].op = "scroll"
        /\ Len(calls[i].out) = PageSize
        /\ calls[i].next # None
        /\ calls[i + 1].op = "check"
        /\ calls[i + 1].ids = calls[i].out
        /\ \E j \in (i + 2)..(Len(calls) - 1) :
             /\ calls[j].op = "scroll"
             /\ calls[j].col = calls[i].col
             /\ calls[j].out # <<>>
             /\ calls[j + 1].op = "check"
             /\ calls[j + 1].ids = calls[j].out

\* what the Pruner calls of this run made before call i removed from collection c
DeletedBefore(i, c) ==
    UNION {Range(calls[k].ids) : k \in {j \in Idx("delete", c) : j < i /\ calls[j].applied}}

\* C20: with no write by another party, the Pruner calls the Driver makes
\* between the pages of a collection leave its scan as it would have been
\* without them: every page is the page the collection as it was when the run
\* started gives for that cursor, no cursor given to the Scanner and no point
\* of a page is a point the Driver has removed before that call, the cursor
\* for the next page is a point still in the collection, and once the loop of
\* the collection has ended every point it held when the run started has been
\* returned in exactly one page.
OwnDeletesKeepScan ==
    writes = 0 =>
        \A c \in CollectionNames :
            /\ \A i \in Idx("scroll", c) :
                 calls[i].ok =>
                    /\ calls[i].cursor \notin DeletedBefore(i, c)
                    /\ Range(calls[i].out) \cap DeletedBefore(i, c) = {}
                    /\ calls[i].out =
                         Take(SortedSeq({p \in qRunStart[c] : p >= calls[i].cursor}), PageSize)
                    /\ calls[i].next # None =>
                         /\ calls[i].next \in qRunStart[c]
                         /\ calls[i].next \notin Range(calls[i].out)
            /\ (pc = "scroll" /\ collection = c /\ Idx("scroll", c) # {}) =>
                 /\ offset \in qdrant[c]
                 /\ offset \notin AppliedDeletes(c)
                 /\ \A p \in qRunStart[c] : Visits(c, p) = (IF p < offset THEN 1 ELSE 0)
            /\ (c \in doneCols /\ AppliedDeletes(c) # {}) =>
                 \A p \in qRunStart[c] : Visits(c, p) = 1

\* the first page of a collection lost an orphan to the Pruner before the
\* second page was asked for, and still every point the collection held was
\* returned once
OwnDeletesKeepScanWitness ==
    /\ writes = 0
    /\ \E c \in doneCols :
         /\ \E i, j \in Idx("scroll", c) :
              /\ i < j
              /\ DeletedBefore(j, c) # {}
              /\ DeletedBefore(j, c) \subseteq Range(calls[i].out)
              /\ calls[j].out # <<>>
         /\ \A p \in qRunStart[c] : Visits(c, p) = 1
====
